---------------------------- MODULE Spec2Model ----------------------------
(***************************************************************************)
(* vf2-header (src/src/main.rs): the tool that prepends the 1024-byte SPL  *)
(* header to u-boot-spl.bin (write_spl_hdr) and that patches the header at *)
(* the start of an eMMC image (write_img_hdr).                             *)
(*                                                                         *)
(* The model follows one process run statement by statement.  A file is a  *)
(* byte sequence; so that files of 180049 bytes and of more than 2^32      *)
(* bytes fit in a state, a file (and a Vec<u8> read from it) is kept as    *)
(* [bytes, zeros]: the explicit bytes followed by `zeros` bytes of value 0.*)
(* Every I/O call whose result the code binds to `_res` and ignores        *)
(* returns a result chosen by the environment: Ok with all bytes, Ok with  *)
(* fewer bytes, or Err.                                                    *)
(***************************************************************************)
EXTENDS Integers, Sequences, FiniteSets, TLC

\* ------------------------------------------------------------------ bounds
\* longest explicitly enumerated small file
MaxLen == 2
\* longest tail that follows the 1024 header bytes of an enumerated image
MaxTail == 1
\* how many times the tool is run on the same image (write_img_hdr twice)
MaxRuns == 2

\* ------------------------------------------------------- integers and bytes
\* A u32 is kept as its two 16-bit halves [h, l] (value h * 65536 + l) and a
\* u64 as [hi, lo] with lo a u32 (value hi * 2^32 + lo), so that every value
\* of every width the code uses is a value of the model.
Half == 2^16

\* the u32 of a small number
W32(n) == [h |-> n \div Half, l |-> n % Half]

\* the u64 of a small number
W64(n) == [hi |-> 0, lo |-> W32(n)]

\* `x as u32` of a u64 or usize x (main.rs:99-100): the low 32 bits
AsU32(x) == x.lo

\* a > b on u32 (main.rs:101)
Gt32(a, b) == a.h > b.h \/ (a.h = b.h /\ a.l > b.l)

Gt64(a, b) == a.hi > b.hi \/ (a.hi = b.hi /\ Gt32(a.lo, b.lo))

\* x + k on u64, k a small number
Add64(x, k) ==
    LET l == x.lo.l + k
        h == x.lo.h + (l \div Half)
    IN [hi |-> x.hi + (h \div Half), lo |-> [h |-> h % Half, l |-> l % Half]]

\* x - k on u64, k a small number, 0 when k > x
Sub64(x, k) ==
    IF ~Gt64(x, W64(k)) THEN W64(0)
    ELSE LET l  == x.lo.l - k
             bl == IF l < 0 THEN ((Half - 1 - l) \div Half) ELSE 0
             h  == x.lo.h - bl
             bh == IF h < 0 THEN 1 ELSE 0
         IN [hi |-> x.hi - bh, lo |-> [h |-> h + bh * Half, l |-> l + bl * Half]]

\* the build targets are little-endian hosts (x86-64, aarch64, riscv64)
HostBigEndian == FALSE

SwapBytes(x) ==
    [h |-> (x.l % 256) * 256 + (x.l \div 256), l |-> (x.h % 256) * 256 + (x.h \div 256)]

\* u32::to_le (main.rs:54,59,78,79,104,111,133): identity on a little-endian
\* host, a byte swap on a big-endian one
ToLe(x) == IF HostBigEndian THEN SwapBytes(x) ELSE x

RECURSIVE Xor(_, _)
Xor(a, b) ==
    IF a = 0 THEN b
    ELSE IF b = 0 THEN a
    ELSE (((a % 2) + (b % 2)) % 2) + 2 * Xor(a \div 2, b \div 2)

Xor32(a, b) == [h |-> Xor(a.h, b.h), l |-> Xor(a.l, b.l)]

Shr1(x) == [h |-> x.h \div 2, l |-> (x.l \div 2) + (x.h % 2) * 32768]

Shr8(x) == [h |-> x.h \div 256, l |-> (x.l \div 256) + (x.h % 256) * 256]

Zeros(n) == [i \in 1..n |-> 0]

\* the big-endian encoding
BE32(x) == << x.h \div 256, x.h % 256, x.l \div 256, x.l % 256 >>

\* bincode's fixed-width little-endian encoding of a u32
LE32(x) == << x.l % 256, x.l \div 256, x.h % 256, x.h \div 256 >>

\* bincode's decoding of a u32 from the 4 bytes of s that follow offset off
RdLE32(s, off) ==
    [h |-> s[off + 3] + 256 * s[off + 4], l |-> s[off + 1] + 256 * s[off + 2]]

\* ------------------------------------------------------------------- CRC
\* CRC_32_ISO_HDLC (main.rs:3,108): reflected polynomial 0xEDB88320, initial
\* value and final xor 0xFFFFFFFF
CrcPoly == [h |-> 60856, l |-> 33568]
CrcInit == [h |-> 65535, l |-> 65535]

RECURSIVE CrcBits(_, _)
CrcBits(r, k) ==
    IF k = 0 THEN r
    ELSE CrcBits(IF r.l % 2 = 1 THEN Xor32(Shr1(r), CrcPoly) ELSE Shr1(r), k - 1)

CrcTable == [b \in 0..255 |-> CrcBits(W32(b), 8)]

\* Digest::update on one byte
CrcByte(r, b) == Xor32(Shr8(r), CrcTable[Xor(r.l % 256, b)])

RECURSIVE CrcRange(_, _, _, _)
CrcRange(r, s, lo, hi) ==
    IF lo > hi THEN r
    ELSE IF lo = hi THEN CrcByte(r, s[lo])
    ELSE LET mid  == (lo + hi) \div 2
             left == CrcRange(r, s, lo, mid)
         \* the test makes TLC evaluate `left` before it recurses
         IN IF left.h >= 0 THEN CrcRange(left, s, mid + 1, hi) ELSE left

\* the digest without the final xor (CRC-32/JAMCRC)
Crc32_NoXorOut(s) == CrcRange(CrcInit, s, 1, Len(s))

\* crc32.digest(); digest.update(s); digest.finalize()  (main.rs:108-111)
Crc32(s) == Xor32(CrcRange(CrcInit, s, 1, Len(s)), CrcInit)

\* ------------------------------------------------------------ the header
\* struct UBootSPLHeader (main.rs:29-48); repr(C) adds no padding, every
\* field starts at a multiple of 4
HdrSize == 4 + 4 + 636 + 4 + 4 + 4 + 4 + 364

\* const CRC_FAILED: u32 = 0x5A5A5A5A
CRC_FAILED == [h |-> 23130, l |-> 23130]

\* UBootSPLHeader::new (main.rs:52-63)
UBootSPLHeader_new ==
    [sofs |-> ToLe(W32(576)), bofs |-> W32(0), zro2 |-> Zeros(636),
     vers |-> W32(0), fsiz |-> W32(0), res1 |-> ToLe(W32(1024)),
     crcs |-> W32(0), zro3 |-> Zeros(364)]

\* the layout with `vers` moved to offset 648, on a multiple of 8
Serialize_Padded(hd) ==
    LE32(hd.sofs) \o LE32(hd.bofs) \o hd.zro2 \o Zeros(4) \o LE32(hd.vers)
    \o LE32(hd.fsiz) \o LE32(hd.res1) \o LE32(hd.crcs) \o SubSeq(hd.zro3, 1, 360)

\* bincode::serialize (main.rs:112,135): the fields in declaration order,
\* each u32 as 4 little-endian bytes, each byte array as its bytes (serde_arrays
\* writes a tuple: no length prefix)
Serialize(hd) ==
    LE32(hd.sofs) \o LE32(hd.bofs) \o hd.zro2 \o LE32(hd.vers)
    \o LE32(hd.fsiz) \o LE32(hd.res1) \o LE32(hd.crcs) \o hd.zro3

\* bincode::deserialize (main.rs:129) is Ok only when the slice holds every
\* field; bytes after the last field are ignored
CanDeserialize(s) == Len(s) >= HdrSize

Deserialize(s) ==
    [sofs |-> RdLE32(s, 0), bofs |-> RdLE32(s, 4), zro2 |-> SubSeq(s, 9, 644),
     vers |-> RdLE32(s, 644), fsiz |-> RdLE32(s, 648), res1 |-> RdLE32(s, 652),
     crcs |-> RdLE32(s, 656), zro3 |-> SubSeq(s, 661, 1024)]

\* --------------------------------------------------------------- files
\* a file or a Vec<u8>: `bytes` followed by `zeros` bytes of value 0
Blob(s) == [exists |-> TRUE, bytes |-> s, zeros |-> W64(0)]

ZeroBlob(z) == [exists |-> TRUE, bytes |-> << >>, zeros |-> z]

NoFile == [exists |-> FALSE, bytes |-> << >>, zeros |-> W64(0)]

\* Metadata::len (main.rs:98,100), a u64
FileLen(f) == Add64(f.zeros, Len(f.bytes))

Max(a, b) == IF a > b THEN a ELSE b

\* min(n, length of f) as a small number
Avail(f, n) == IF Gt64(FileLen(f), W64(n)) THEN n ELSE FileLen(f).lo.l + Half * FileLen(f).lo.h

\* the bytes of f at offsets lo .. hi-1 (hi within the file)
Slice(f, lo, hi) ==
    [i \in 1..(hi - lo) |-> IF lo + i <= Len(f.bytes) THEN f.bytes[lo + i] ELSE 0]

\* File::write of the bytes d at offset pos: the file grows when the write
\* ends after its end
WriteAt(f, pos, d) ==
    LET end == pos + Len(d)
        e   == IF Len(d) = 0 THEN Len(f.bytes) ELSE Max(Len(f.bytes), end)
    IN [exists |-> TRUE,
        bytes  |-> [i \in 1..e |-> IF i > pos /\ i <= end THEN d[i - pos]
                                   ELSE IF i <= Len(f.bytes) THEN f.bytes[i]
                                   ELSE 0],
        zeros  |-> Sub64(f.zeros, e - Len(f.bytes))]

\* File::write of the Vec d at the end of the file f
AppendVec(f, d) ==
    LET whole == IF f.zeros = W64(0) THEN f.bytes ELSE Slice(f, 0, Avail(f, Half))
    IN [exists |-> TRUE, bytes |-> whole \o d.bytes, zeros |-> d.zeros]

\* the CRC-32 of a run of zero bytes too long to iterate over (computed with
\* zlib.crc32, the same CRC-32/ISO-HDLC)
LargeZeroRunCrc(z) ==
    CASE z = W64(180049) -> [h |-> 114, l |-> 23998]
      [] z = [hi |-> 1, lo |-> W32(0)] -> [h |-> 53762, l |-> 61325]
      [] z = [hi |-> 1, lo |-> W32(180049)] -> [h |-> 65243, l |-> 859]

\* the digest of a whole Vec (main.rs:108-111)
Crc32Blob(d) ==
    IF d.zeros = W64(0) THEN Crc32(d.bytes)
    ELSE IF d.bytes = << >> /\ Gt64(d.zeros, W64(Half)) THEN LargeZeroRunCrc(d.zeros)
    ELSE Crc32(Slice(d, 0, Avail(d, Half)))

\* ------------------------------------------------------- the inputs
\* --spl-bak-addr: none, the default 0x200000, and 0x12345678
BofsSamples == {W32(0), W32(2097152), [h |-> 4660, l |-> 22136]}

\* --version: the default 0x01010101, and 0x04030201
DefaultVers == [h |-> 257, l |-> 257]

VersSamples == {DefaultVers, [h |-> 1027, l |-> 513]}

ByteSamples == {1, 2, 3}

SeqsUpTo(S, n) == UNION {[1..k -> S] : k \in 0..n}

\* short files: every byte sequence over ByteSamples up to MaxLen, and the
\* three bytes 01 02 03
SmallFiles == {Blob(s) : s \in SeqsUpTo(ByteSamples, MaxLen) \cup {<<1, 2, 3>>}}

\* file lengths around the size limit and around 2^32 (files of zero bytes)
LargeLens ==
    {W64(180049), W64(180050), [hi |-> 0, lo |-> [h |-> 32768, l |-> 0]],
     [hi |-> 1, lo |-> W32(0)], [hi |-> 1, lo |-> W32(180049)],
     [hi |-> 1, lo |-> W32(180050)]}

LargeFiles == {ZeroBlob(z) : z \in LargeLens}

\* headers found at the start of an image: one that write_spl_hdr wrote, one
\* whose every byte is set and whose crc already is CRC_FAILED, and the zeroed
\* start of a blank image
HeaderSamples ==
    {[UBootSPLHeader_new EXCEPT !.bofs = W32(1048576), !.vers = [h |-> 257, l |-> 257],
                                !.fsiz = W32(3), !.crcs = [h |-> 21948, l |-> 32797]],
     [sofs |-> [h |-> 4386, l |-> 13124], bofs |-> [h |-> 21862, l |-> 30600],
      zro2 |-> [i \in 1..636 |-> 170], vers |-> [h |-> 39321, l |-> 43707],
      fsiz |-> [h |-> 52445, l |-> 61183], res1 |-> [h |-> 4112, l |-> 8224],
      crcs |-> CRC_FAILED, zro3 |-> [i \in 1..364 |-> 187]],
     [UBootSPLHeader_new EXCEPT !.sofs = W32(0), !.res1 = W32(0)]}

\* images: a header and a tail of up to MaxTail bytes
ImageFiles ==
    {Blob(Serialize(hd) \o t) : hd \in HeaderSamples, t \in SeqsUpTo({7}, MaxTail)}

\* images cut short of a whole header
TruncatedFiles ==
    {Blob(SubSeq(Serialize(hd), 1, n)) : hd \in HeaderSamples, n \in {8, HdrSize - 1}}

\* a file left at <name>.normal.out by an earlier run, or none
OutSamples == {NoFile, Blob(<<9, 9>>)}

\* what an ignored io::Result can be: Ok with every byte, Ok with fewer
\* bytes, Err
IoResults == {"ok", "short", "err"}

\* how many of n bytes a call with the result r transfers
Moved(r, n) == IF r = "ok" THEN n ELSE IF r = "short" THEN n \div 2 ELSE 0

\* ------------------------------------------------------------- the state
VARIABLES
    args,       \* Args: c, i, a, v (f is the one path of the model)
    file,       \* the file at conf.name
    outf,       \* the file at <conf.name>.normal.out
    access,     \* whether the OS lets this process open conf.name
    pc,         \* the statement the run is at
    hdr,        \* spl_hdr of write_spl_hdr, img_hdr of write_img_hdr
    f_size,     \* f_size of write_spl_hdr
    contents,   \* the Vec `contents`
    v,          \* the Vec `v`
    pos,        \* the cursor of the handle `file` in write_img_hdr
    res,        \* the results bound to `_res`, by call
    stdout,     \* the lines printed
    run,        \* the number of this run on the file
    file0,      \* the file at conf.name when this run started
    outf0,      \* the file at <conf.name>.normal.out when this run started
    hist,       \* the file at conf.name at the end of each finished write_img_hdr
    err         \* the panic that ended the run, "none" otherwise

vars == <<args, file, outf, access, pc, hdr, f_size, contents, v, pos, res,
          stdout, run, file0, outf0, hist, err>>

\* impl From<Args> for HeaderConf (main.rs:74-84)
conf ==
    [bofs |-> ToLe(args.a), vers |-> ToLe(args.v),
     create_hdr |-> args.c, fix_img_hdr |-> args.i]

NoRes == [read |-> "none", seek |-> "none", write |-> "none", write2 |-> "none"]

EmptyVec == Blob(<< >>)

Init ==
    /\ args \in [c : BOOLEAN, i : BOOLEAN, a : BofsSamples, v : VersSamples]
    \* only write_spl_hdr reads the version and touches <name>.normal.out
    /\ outf \in OutSamples
    /\ args.c \/ (args.v = DefaultVers /\ outf = NoFile)
    /\ file \in IF args.c
                THEN SmallFiles \cup LargeFiles \cup {NoFile}
                ELSE SmallFiles \cup ImageFiles \cup TruncatedFiles \cup {NoFile}
    /\ access \in BOOLEAN
    /\ pc = "main"
    /\ hdr = UBootSPLHeader_new
    /\ f_size = W32(0)
    /\ contents = EmptyVec
    /\ v = << >>
    /\ pos = 0
    /\ res = NoRes
    /\ stdout = << >>
    /\ run = 1
    /\ file0 = file
    /\ outf0 = outf
    /\ hist = << >>
    /\ err = "none"

\* ------------------------------------------------------------- main
\* main (main.rs:140-151)
Main ==
    /\ pc = "main"
    /\ pc' = IF conf.create_hdr THEN "spl_new"
             ELSE IF conf.fix_img_hdr THEN "img_open" ELSE "exit"
    /\ UNCHANGED <<args, file, outf, access, hdr, f_size, contents, v, pos, res,
                   stdout, run, file0, outf0, hist, err>>

\* ------------------------------------------------------- write_spl_hdr
\* main.rs:87-96
SplNew ==
    /\ pc = "spl_new"
    /\ hdr' = [UBootSPLHeader_new EXCEPT !.bofs = conf.bofs, !.vers = conf.vers]
    /\ stdout' = Append(stdout, "spl_hdr")
    /\ pc' = "spl_open"
    /\ UNCHANGED <<args, file, outf, access, f_size, contents, v, pos, res,
                   run, file0, outf0, hist, err>>

\* File::open(..).unwrap() (main.rs:97)
SplOpen ==
    /\ pc = "spl_open"
    /\ IF file.exists /\ access
       THEN pc' = "spl_meta" /\ err' = err
       ELSE pc' = "panic" /\ err' = "open"
    /\ UNCHANGED <<args, file, outf, access, hdr, f_size, contents, v, pos, res,
                   stdout, run, file0, outf0, hist>>

\* (181072 - size_of::<UBootSPLHeader>() + 1) as u32 (main.rs:99)
max_size == AsU32(W64(181072 - HdrSize + 1))

\* f_size > max_size (main.rs:101)
TooLarge(fsz) == Gt32(fsz, max_size)

\* the size check with File::create moved before it
SplCheckSize_CreateFirst ==
    /\ pc = "spl_meta"
    /\ outf' = EmptyVec
    /\ LET fsz == AsU32(FileLen(file))
       IN /\ f_size' = fsz
          /\ IF TooLarge(fsz)
             THEN pc' = "panic" /\ err' = "too_large" /\ hdr' = hdr
             ELSE pc' = "spl_read" /\ err' = err /\ hdr' = [hdr EXCEPT !.fsiz = ToLe(fsz)]
    /\ UNCHANGED <<args, file, access, contents, v, pos, res,
                   stdout, run, file0, outf0, hist>>

\* file.metadata().unwrap() and the size check (main.rs:98-104)
SplCheckSize ==
    /\ pc = "spl_meta"
    /\ \E ok \in BOOLEAN :
         LET fsz == AsU32(FileLen(file))
         IN IF ~ok
            THEN pc' = "panic" /\ err' = "metadata" /\ UNCHANGED <<f_size, hdr>>
            ELSE /\ f_size' = fsz
                 /\ IF TooLarge(fsz)
                    THEN pc' = "panic" /\ err' = "too_large" /\ hdr' = hdr
                    ELSE /\ pc' = "spl_read"
                         /\ err' = err
                         /\ hdr' = [hdr EXCEPT !.fsiz = ToLe(fsz)]
    /\ UNCHANGED <<args, file, outf, access, contents, v, pos, res,
                   stdout, run, file0, outf0, hist>>

\* the part of the Vec d that a call with the result r transfers
Part(d, r) ==
    IF r = "ok" THEN d
    ELSE IF r = "short" THEN Blob(SubSeq(d.bytes, 1, Len(d.bytes) \div 2))
    ELSE EmptyVec

\* let _res = file.read_to_end(&mut contents) (main.rs:105-106): Ok with the
\* whole file, or Err, and then the Vec holds what was read before the error
\* (half of the explicit bytes, or nothing)
SplRead ==
    /\ pc = "spl_read"
    /\ \E r \in IoResults :
         /\ r = "short" => FileLen(file) # W64(0)
         /\ contents' = Part(file, r)
         /\ res' = [res EXCEPT !.read = IF r = "ok" THEN "ok" ELSE "err"]
    /\ pc' = "spl_create"
    /\ UNCHANGED <<args, file, outf, access, hdr, f_size, v, pos,
                   stdout, run, file0, outf0, hist, err>>

\* File::create(..).unwrap() (main.rs:107): creates the file or truncates it
SplCreate ==
    /\ pc = "spl_create"
    /\ \E ok \in BOOLEAN :
         IF ok
         THEN outf' = EmptyVec /\ pc' = "spl_crc" /\ err' = err
         ELSE outf' = outf /\ pc' = "panic" /\ err' = "create"
    /\ UNCHANGED <<args, file, access, hdr, f_size, contents, v, pos, res,
                   stdout, run, file0, outf0, hist>>

\* main.rs:108-112
SplCrc ==
    /\ pc = "spl_crc"
    /\ hdr' = [hdr EXCEPT !.crcs = ToLe(Crc32Blob(contents))]
    /\ v' = Serialize(hdr')
    /\ pc' = "spl_write_hdr"
    /\ UNCHANGED <<args, file, outf, access, f_size, contents, pos, res,
                   stdout, run, file0, outf0, hist, err>>

\* let _res = file.write(v.as_slice()) (main.rs:113)
SplWriteHdr ==
    /\ pc = "spl_write_hdr"
    /\ \E r \in IoResults :
         /\ outf' = AppendVec(outf, Part(Blob(v), r))
         /\ res' = [res EXCEPT !.write = r]
    /\ pc' = "spl_write_payload"
    /\ UNCHANGED <<args, file, access, hdr, f_size, contents, v, pos,
                   stdout, run, file0, outf0, hist, err>>

\* let _res = file.write(contents.as_slice()) (main.rs:114)
SplWritePayload ==
    /\ pc = "spl_write_payload"
    /\ \E r \in IoResults :
         /\ r = "short" => FileLen(contents) # W64(0)
         /\ outf' = AppendVec(outf, Part(contents, r))
         /\ res' = [res EXCEPT !.write2 = r]
    /\ pc' = "done"
    /\ UNCHANGED <<args, file, access, hdr, f_size, contents, v, pos,
                   stdout, run, file0, outf0, hist, err>>

\* ------------------------------------------------------- write_img_hdr
\* File::options().read(true).write(true).open(..).unwrap() (main.rs:122-126)
ImgOpen ==
    /\ pc = "img_open"
    /\ IF file.exists /\ access
       THEN pc' = "img_read" /\ err' = err
       ELSE pc' = "panic" /\ err' = "open"
    /\ pos' = 0
    /\ UNCHANGED <<args, file, outf, access, hdr, f_size, contents, v, res,
                   stdout, run, file0, outf0, hist>>

\* let mut contents = vec![0u8; 1024]; let _res = file.read(&mut contents)
\* (main.rs:127-128): one read call, which fills the start of the buffer
ImgRead ==
    /\ pc = "img_read"
    /\ \E r \in IoResults :
         LET all == Avail(file, HdrSize)
             n   == Moved(r, all)
         IN /\ r = "short" => all > 0
            /\ contents' = Blob(Slice(file, 0, n) \o Zeros(HdrSize - n))
            /\ pos' = n
            /\ res' = [res EXCEPT !.read = r]
    /\ pc' = "img_patch"
    /\ UNCHANGED <<args, file, outf, access, hdr, f_size, v,
                   stdout, run, file0, outf0, hist, err>>

\* a patch that stores the argument even when it is 0
PatchHdr_Always(hd, bofs) == [hd EXCEPT !.bofs = bofs, !.crcs = ToLe(CRC_FAILED)]

\* a patch that spoils the checksum by flipping its bits
PatchHdr_Flip(hd, bofs) ==
    [hd EXCEPT !.bofs = IF bofs # W32(0) THEN bofs ELSE @,
               !.crcs = Xor32(@, ToLe(CRC_FAILED))]

\* main.rs:130-133
PatchHdr(hd, bofs) ==
    [hd EXCEPT !.bofs = IF bofs # W32(0) THEN bofs ELSE @,
               !.crcs = ToLe(CRC_FAILED)]

\* bincode::deserialize(..).unwrap() and the two assignments (main.rs:129-133)
ImgPatch ==
    /\ pc = "img_patch"
    /\ IF CanDeserialize(contents.bytes)
       THEN /\ hdr' = PatchHdr(Deserialize(contents.bytes), conf.bofs)
            /\ pc' = "img_seek"
            /\ err' = err
       ELSE hdr' = hdr /\ pc' = "panic" /\ err' = "deserialize"
    /\ UNCHANGED <<args, file, outf, access, f_size, contents, v, pos, res,
                   stdout, run, file0, outf0, hist>>

\* a run that does not move the cursor back before it writes
SeekStart_Stay(cur, r) == cur

\* the cursor after file.seek(SeekFrom::Start(0)) with the result r
SeekStart(cur, r) == IF r = "ok" THEN 0 ELSE cur

\* let _res = file.seek(SeekFrom::Start(0)) (main.rs:134)
ImgSeek ==
    /\ pc = "img_seek"
    /\ \E r \in {"ok", "err"} :
         /\ pos' = SeekStart(pos, r)
         /\ res' = [res EXCEPT !.seek = r]
    /\ pc' = "img_write"
    /\ UNCHANGED <<args, file, outf, access, hdr, f_size, contents, v,
                   stdout, run, file0, outf0, hist, err>>

\* bincode::serialize and let _res = file.write(v.as_slice()) (main.rs:135-136)
ImgWrite ==
    /\ pc = "img_write"
    /\ v' = Serialize(hdr)
    /\ \E r \in IoResults :
         LET n == Moved(r, Len(v'))
         IN /\ file' = WriteAt(file, pos, SubSeq(v', 1, n))
            /\ pos' = pos + n
            /\ res' = [res EXCEPT !.write = r]
    /\ pc' = "img_print"
    /\ UNCHANGED <<args, outf, access, hdr, f_size, contents,
                   stdout, run, file0, outf0, hist, err>>

\* println!("IMG {} fixed hdr successfully.") (main.rs:137)
ImgPrint ==
    /\ pc = "img_print"
    /\ stdout' = Append(stdout, "fixed")
    /\ hist' = Append(hist, file)
    /\ pc' = "done"
    /\ UNCHANGED <<args, file, outf, access, hdr, f_size, contents, v, pos, res,
                   run, file0, outf0, err>>

\* every call of the run so far returned Ok with all its bytes
AllOk == \A k \in DOMAIN res : res[k] \in {"none", "ok"}

\* the tool is started again, with the same arguments, on the image that a
\* run without a failed call has fixed
Rerun ==
    /\ pc = "done"
    /\ ~conf.create_hdr
    /\ AllOk
    /\ run < MaxRuns
    /\ run' = run + 1
    /\ pc' = "main"
    /\ hdr' = UBootSPLHeader_new
    /\ f_size' = W32(0)
    /\ contents' = EmptyVec
    /\ v' = << >>
    /\ pos' = 0
    /\ res' = NoRes
    /\ stdout' = << >>
    /\ file0' = file
    /\ outf0' = outf
    /\ UNCHANGED <<args, file, outf, access, hist, err>>

Next ==
    \/ Main
    \/ SplNew \/ SplOpen \/ SplCheckSize \/ SplRead \/ SplCreate \/ SplCrc
    \/ SplWriteHdr \/ SplWritePayload
    \/ ImgOpen \/ ImgRead \/ ImgPatch \/ ImgSeek \/ ImgWrite \/ ImgPrint
    \/ Rerun

Spec == Init /\ [][Next]_vars

\* ------------------------------------------------------- the properties
CreateMode == conf.create_hdr

PatchMode == ~conf.create_hdr /\ conf.fix_img_hdr

\* the run reached its last statement and every call returned Ok in full
\* (runs with a failed call are the subject of C7)
Completed == pc = "done" /\ AllOk

\* the content of f from offset 1024 on
TailOf(f) == IF Avail(f, Half) <= HdrSize THEN << >> ELSE Slice(f, HdrSize, Avail(f, Half))

\* the 4 bytes of s at offset off are x, least significant byte first
FieldAt(s, off, x) ==
    /\ Len(s) >= off + 4
    /\ s[off + 1] = x.l % 256
    /\ s[off + 2] = x.l \div 256
    /\ s[off + 3] = x.h % 256
    /\ s[off + 4] = x.h \div 256

\* the n bytes of s at offset off are the bytes of a
BytesAt(s, off, n, a) == Len(s) >= off + n /\ \A i \in 1..n : s[off + i] = a[i]

\* C1: a run of write_img_hdr leaves every byte of the file at offset 1024
\* and beyond as it was when the run started.
C1_TailUntouched == (PatchMode /\ AllOk) => TailOf(file) = TailOf(file0)

C1_Witness ==
    /\ PatchMode /\ Completed
    /\ Len(file0.bytes) > HdrSize
    /\ file # file0

\* C2: on a file of fewer than 1024 bytes write_img_hdr fails: the run stops
\* at the read (every call returning Ok), the file is not written and
\* nothing is printed.
C2_ShortFileFails ==
    (PatchMode /\ file0.exists /\ access /\ Len(file0.bytes) < HdrSize /\ AllOk)
        => (/\ pc \in {"main", "img_open", "img_read", "panic"}
            /\ file = file0
            /\ stdout = << >>)

\* C3: the header that write_img_hdr hands to the write is the header held
\* in the first 1024 bytes of the file with crcs = 0x5A5A5A5A and with bofs the
\* argument when that is not 0; every other field, and bofs when the argument
\* is 0, is as it was.
C3_PatchedFields ==
    (PatchMode /\ pc \in {"img_print", "done"}
       /\ Len(file0.bytes) >= HdrSize /\ contents.bytes = Slice(file0, 0, HdrSize))
        => LET old == Deserialize(Slice(file0, 0, HdrSize))
               new == Deserialize(v)
           IN /\ Len(v) = HdrSize
              /\ new.crcs = [h |-> 23130, l |-> 23130]
              /\ new.bofs = (IF args.a = W32(0) THEN old.bofs ELSE args.a)
              /\ new.sofs = old.sofs /\ new.vers = old.vers /\ new.fsiz = old.fsiz
              /\ new.res1 = old.res1 /\ new.zro2 = old.zro2 /\ new.zro3 = old.zro3

C3_Witness ==
    /\ PatchMode /\ pc = "done"
    /\ Len(file0.bytes) >= HdrSize /\ contents.bytes = Slice(file0, 0, HdrSize)
    /\ args.a = W32(0)
    /\ Deserialize(Slice(file0, 0, HdrSize)).bofs = W32(1048576)
    /\ Deserialize(v).bofs = W32(1048576)
    /\ Deserialize(Slice(file0, 0, HdrSize)).crcs # CRC_FAILED

\* C4: when write_spl_hdr completes on an input of at most 180049 bytes,
\* <name>.normal.out is 1024 header bytes followed by the input's bytes, with
\* fsiz the number of those bytes, crcs their CRC-32 (0x55BC801D for 01 02 03),
\* sofs 0x240, res1 0x400, vers and bofs the arguments, and the reserved
\* bytes zero; the input is as it was.
C4_OutputFile ==
    (CreateMode /\ Completed /\ ~Gt64(FileLen(file0), W64(180049)))
        => /\ file = file0
           /\ outf.exists
           /\ outf.zeros = file0.zeros
           /\ Len(outf.bytes) = HdrSize + Len(file0.bytes)
           /\ BytesAt(outf.bytes, HdrSize, Len(file0.bytes), file0.bytes)
           /\ FieldAt(outf.bytes, 0, W32(576))
           /\ FieldAt(outf.bytes, 4, args.a)
           /\ BytesAt(outf.bytes, 8, 636, Zeros(636))
           /\ FieldAt(outf.bytes, 644, args.v)
           /\ FieldAt(outf.bytes, 648, FileLen(file0).lo) /\ FileLen(file0).hi = 0
           /\ FieldAt(outf.bytes, 652, W32(1024))
           /\ FieldAt(outf.bytes, 656, Crc32Blob(file0))
           /\ (file0.bytes = <<1, 2, 3>> =>
                   FieldAt(outf.bytes, 656, [h |-> 21948, l |-> 32797]))
           /\ BytesAt(outf.bytes, 660, 364, Zeros(364))

C4_Witness ==
    /\ CreateMode /\ Completed
    /\ file0.bytes = <<1, 2, 3>>
    /\ args.a = W32(2097152) /\ args.v = DefaultVers
    /\ outf0 # NoFile
    /\ Len(outf.bytes) = HdrSize + 3

\* C5: write_spl_hdr stops with "File too large" exactly when the input is
\* longer than 180049 bytes.
C5_TooLargeIff ==
    (CreateMode /\ (pc \in {"spl_read", "spl_create", "spl_crc", "spl_write_hdr",
                            "spl_write_payload", "done"} \/ err = "too_large"))
        => (err = "too_large" <=> Gt64(FileLen(file0), W64(180049)))

\* C6: when write_spl_hdr stops because the input cannot be opened or is too
\* large, <name>.normal.out and the input are as they were before the run.
C6_NoWriteOnFailure ==
    (CreateMode /\ pc = "panic" /\ err \in {"open", "too_large"})
        => (outf = outf0 /\ file = file0)

C6_Witness ==
    /\ CreateMode /\ pc = "panic" /\ err = "too_large"
    /\ outf0 = Blob(<<9, 9>>) /\ outf = outf0
    /\ FileLen(file0) = W64(180050)

\* C7: once a read, a seek or a write has returned Err or fewer bytes than
\* asked for, the run has stopped: no later statement runs.
C7_FailureAborts ==
    (\E k \in DOMAIN res : res[k] \in {"short", "err"}) => pc = "panic"

\* the layout of the serialized header h in the bytes s, with `vers` at
\* offset ov and the fields after it following one another
Layout(s, hd, ov) ==
    /\ Len(s) = 1024
    /\ FieldAt(s, 0, hd.sofs)
    /\ FieldAt(s, 4, hd.bofs)
    /\ BytesAt(s, 8, 636, hd.zro2)
    /\ FieldAt(s, ov, hd.vers)
    /\ FieldAt(s, ov + 4, hd.fsiz)
    /\ FieldAt(s, ov + 8, hd.res1)
    /\ FieldAt(s, ov + 12, hd.crcs)
    /\ BytesAt(s, ov + 16, 364, hd.zro3)

\* C8 as stated: the serialized header is 1024 bytes with vers at 648, fsiz
\* at 652, res1 at 656, crcs at 660 and the last 364 reserved bytes at 664.
C8_LayoutAsStated == v # << >> => Layout(v, hdr, 648)

\* C8 as amended: the serialized header is 1024 bytes with sofs at 0, bofs at
\* 4, 636 reserved bytes at 8, vers at 644, fsiz at 648, res1 at 652, crcs at
\* 656 and 364 reserved bytes at 660, every u32 little-endian.
C8_Layout == v # << >> => Layout(v, hdr, 644)

C8_Witness ==
    /\ v # << >>
    /\ hdr.zro2[636] = 170 /\ hdr.zro3[1] = 187
    /\ hdr.vers = [h |-> 39321, l |-> 43707]
    /\ v[645] = 187 /\ v[648] = 153

\* C9: when write_img_hdr completes with a backup address other than 0, the
\* 4 bytes of the file at offset 0x4 are that address, least significant byte
\* first, and the 4 bytes at offset 0x290 are 5A 5A 5A 5A.
C9_BytesOnDisk ==
    (PatchMode /\ Completed /\ args.a # W32(0))
        => /\ FieldAt(file.bytes, 4, args.a)
           /\ BytesAt(file.bytes, 656, 4, <<90, 90, 90, 90>>)

C9_Witness ==
    /\ PatchMode /\ Completed
    /\ args.a = [h |-> 4660, l |-> 22136]
    /\ BytesAt(file.bytes, 4, 4, <<120, 86, 52, 18>>)
    /\ ~BytesAt(file0.bytes, 656, 4, <<90, 90, 90, 90>>)

\* C10: a second (and any later) run of write_img_hdr with the same arguments
\* leaves the file as the first run left it.
C10_Idempotent == (PatchMode /\ Completed /\ run >= 2) => file = hist[1]

C10_Witness ==
    /\ PatchMode /\ Completed /\ run = 2
    /\ file = hist[1]
    /\ Len(hist) = 2
    /\ args.a # W32(0)
    /\ Len(file.bytes) > HdrSize

=============================================================================
